---- MODULE Spec2Model ----
(***************************************************************************)
(* Attend, Infer, Repeat: the recurrent inference cell (cell.py), the      *)
(* model that unrolls it (model.py, AIRModel._build) and the training      *)
(* objective and train operations (model.py, AIRModel.train_step and       *)
(* AIRModel._prior_loss).                                                  *)
(*                                                                         *)
(* Numbers.  Probabilities and presence values are fixed point in units    *)
(* of 1/D (D stands for 1.0).  The canvas has one pixel per sample and is  *)
(* kept in the same unit; a pasted glimpse is an integer pixel value.      *)
(* Tensors with a batch axis are functions over 1..batch_size; the stacked *)
(* outputs of the unroll are sequences over the step axis.                 *)
(***************************************************************************)
EXTENDS Integers, Sequences, FiniteSets, TLC

\* ------------------------------------------------------------------ bounds
Half == 2
D == 2 * Half
MaxCells == 3
MaxPixel == 1
MaxBatch == 2
MaxRuns == 4
MaxExponent == 2
MaxAnnealSteps == 3

\* an optional value: None, or Some(v) whose value is v[1]
None == <<>>
Some(v) == <<v>>

\* ------------------------------------------------------------------ state
VARIABLES
    pc,              \* where the program is
    max_steps,       \* AIRModel.max_steps
    batch_size,      \* AIRModel.batch_size
    discrete_steps,  \* AIRCell._sample_presence
    explore_eps,     \* AIRCell._explore_eps, None or a number in units of 1/D
    obs,             \* the input images, one pixel per sample
    state,           \* the state threaded through the cell: image, canvas, presence
    outputs,         \* the per-step outputs stacked by dynamic_rnn
    drawn,           \* per step, the tensors inside the cell that are not
                     \* emitted: new_presence and inversed_flat
    final_canvas,    \* AIRModel.final_canvas
    num_steps_distrib,   \* the table of AIRModel.num_steps_distrib
    num_step_per_sample, \* AIRModel.num_step_per_sample
    use_prior,       \* train_step arguments
    use_reinforce,
    baseline,        \* None or the baseline module
    l2_weight,
    num_steps_prior, \* None or [anneal, init, final, steps, steps_div]
    appearance_prior,    \* None or the prior of the appearance code
    where_scale_prior,   \* None or the prior of the scale of the pose
    where_shift_prior,   \* None or the prior of the shift of the pose
    trainable,       \* the graph's collection of trainable variables
    baseline_vars,   \* the variables handed to the baseline optimizer
    model_vars,      \* the variables handed to the main optimizer
    opt_terms,       \* the names of the terms summed into opt_loss
    train_ops,       \* AIRModel._train_step, the list train_step returns
    steps_kl_tables, \* None or the shapes of the two tables of the step-count KL
    global_step,     \* the global iteration counter
    runs,            \* how many times the train operations were invoked
    params,          \* the value of every trainable variable
    fwd,             \* the tensors evaluated by the invocation in progress
    pending,         \* the train operations the current invocation still runs
    written,         \* the operations run by the current invocation, in
                     \* order, each with the variables it assigned
    num_steps_prior_value  \* the annealed prior as last evaluated

cfgVars == <<max_steps, batch_size, discrete_steps, explore_eps, obs>>
cellVars == <<state, outputs, drawn>>
modelVars == <<final_canvas, num_steps_distrib, num_step_per_sample>>
trainCfg == <<use_prior, use_reinforce, baseline, l2_weight, num_steps_prior,
              appearance_prior, where_scale_prior, where_shift_prior>>
graphVars == <<trainable, baseline_vars, model_vars, opt_terms, train_ops,
               steps_kl_tables>>
runVars == <<global_step, runs, params, fwd, pending, written, num_steps_prior_value>>
trainVars == <<trainCfg, graphVars, runVars>>
vars == <<pc, cfgVars, cellVars, modelVars, trainVars>>

Batch == 1..batch_size

\* ------------------------------------------------------------ helpers
Min(a, b) == IF a <= b THEN a ELSE b
Max(a, b) == IF a >= b THEN a ELSE b

RECURSIVE Pow(_, _)
Pow(b, n) == IF n = 0 THEN 1 ELSE b * Pow(b, n - 1)

\* tf.clip_by_value(t, lo, hi): maximum(minimum(t, hi), lo)
clip_by_value(t, lo, hi) == Max(Min(t, hi), lo)

\* ------------------------------------------------------------ tensors
\* A tensor is its shape and its entries, indexed from 1 along every axis.
Indices(shape) ==
    {idx \in [1..Len(shape) -> 1..(IF shape = <<>> THEN 1 ELSE
                                   CHOOSE m \in {shape[p] : p \in 1..Len(shape)} :
                                       \A p \in 1..Len(shape) : shape[p] <= m)] :
        \A p \in 1..Len(shape) : idx[p] <= shape[p]}

\* the tensor of a shape whose entry at idx is entry[idx]
Tensor(shape, entry) == [shape |-> shape, at |-> [idx \in Indices(shape) |-> entry[idx]]]

Reverse(s) == [k \in 1..Len(s) |-> s[Len(s) + 1 - k]]

\* tf.squeeze(x): every axis of size 1 is removed
squeeze(x) ==
    LET n == Len(x.shape)
        kept == SelectSeq([p \in 1..n |-> p], LAMBDA p : x.shape[p] # 1)
        rank(p) == Cardinality({q \in 1..p : x.shape[q] # 1})
        shape == [k \in 1..Len(kept) |-> x.shape[kept[k]]]
    IN  Tensor(shape,
               [idx \in Indices(shape) |->
                   x.at[[p \in 1..n |-> IF x.shape[p] = 1 THEN 1 ELSE idx[rank(p)]]]])

\* tf.transpose(x): the axes are reversed
transpose(x) ==
    Tensor(Reverse(x.shape), [idx \in Indices(Reverse(x.shape)) |-> x.at[Reverse(idx)]])

\* the sum and the product of the first n entries of a sequence
RECURSIVE SumOver(_, _)
SumOver(n, s) == IF n = 0 THEN 0 ELSE s[n] + SumOver(n - 1, s)

RECURSIVE ProdOver(_, _)
ProdOver(n, s) == IF n = 0 THEN 1 ELSE s[n] * ProdOver(n - 1, s)

\* tf.reduce_sum(x, 0)
reduce_sum0(x) ==
    Tensor(Tail(x.shape),
           [idx \in Indices(Tail(x.shape)) |->
               SumOver(x.shape[1], [t \in 1..x.shape[1] |-> x.at[<<t>> \o idx]])])

\* numpy broadcasting of an elementwise binary operation: the shapes are
\* aligned at their last axes and an axis of size 1 is repeated
Apply(op, a, b) ==
    IF op = "add" THEN a + b ELSE IF op = "sub" THEN a - b ELSE a * b

Broadcast(x, y, op) ==
    LET r == Max(Len(x.shape), Len(y.shape))
        pad(sh) == [p \in 1..r |->
                       IF p <= r - Len(sh) THEN 1 ELSE sh[p - (r - Len(sh))]]
        pick(t, idx) ==
            t.at[[p \in 1..Len(t.shape) |->
                     IF t.shape[p] = 1 THEN 1 ELSE idx[p + (r - Len(t.shape))]]]
        shape == [p \in 1..r |-> Max(pad(x.shape)[p], pad(y.shape)[p])]
    IN  Tensor(shape,
               [idx \in Indices(shape) |-> Apply(op, pick(x, idx), pick(y, idx))])

RECURSIVE SumAt(_, _)
SumAt(at, idxs) ==
    IF idxs = {} THEN 0
    ELSE LET i == CHOOSE j \in idxs : TRUE IN at[i] + SumAt(at, idxs \ {i})

\* the sum of all entries and the number of entries
reduce_sum(x) == SumAt(x.at, DOMAIN x.at)
Size(x) == Cardinality(DOMAIN x.at)

\* a tensor of shape (batch,) from one value per sample
PerSample(f) == Tensor(<<Len(f)>>, [idx \in Indices(<<Len(f)>>) |-> f[idx[1]]])
\* a tensor of shape (batch, 1) from one value per sample
Column(f) == Tensor(<<Len(f), 1>>, [idx \in Indices(<<Len(f), 1>>) |-> f[idx[1]]])

\* one named output of the unroll as dynamic_rnn stacks it: (steps, batch, 1)
Stacked(outs, batch, name) ==
    Tensor(<<Len(outs), batch, 1>>,
           [idx \in Indices(<<Len(outs), batch, 1>>) |-> outs[idx[1]][name][idx[2]]])

\* ------------------------------------------------------------ the cell
\* the values the steps predictor (a sigmoid) can produce
PresenceProbs == {0, 1, D - 1, D}
\* the pixel values the decoder and the inverse transformer can paste
Glimpses == {0 - MaxPixel, MaxPixel}
\* the exploration floors a caller may pass
ExploreEps == {None} \cup {Some(e) : e \in {0, 1, Half, D + Half}}

\* cell.py 145-147: the forward value of the straight-through clip
ClippedProb(p, eps) ==
    IF eps # None THEN (clip_by_value(p, eps[1], D - eps[1]) - p) + p ELSE p

\* the values Bernoulli(probs = p).sample() can return (uniform < p), as float
BernoulliSamples(p) ==
    IF p <= 0 THEN {0} ELSE IF p >= D THEN {D} ELSE {0, D}

\* cell.py 154 with the product replaced by an assignment of the new sample
NewPresenceOverwrite(presence, presence_prob, sample) ==
    IF discrete_steps THEN sample ELSE presence_prob

\* cell.py 149-157 with the product of line 154 taken in soft mode as well
NewPresenceGated(presence, presence_prob, sample) ==
    (presence * (IF discrete_steps THEN sample ELSE presence_prob)) \div D

\* cell.py 149-157
NewPresence(presence, presence_prob, sample) ==
    IF discrete_steps THEN (presence * sample) \div D ELSE presence_prob

\* cell.py 169 without the factor presence
NewCanvasUngated(canvas, presence, inversed) == canvas + D * inversed

\* cell.py 169
NewCanvas(canvas, presence, inversed) == canvas + presence * inversed

\* cell.py 103-118
initial_state(img) ==
    [image |-> img,
     canvas |-> [i \in DOMAIN img |-> 0],
     presence |-> [i \in DOMAIN img |-> D]]

\* the variables of the cell and of its networks, created with the model
ModelVariables ==
    {[scope |-> "AIRModel", name |-> "weights", rank |-> 2],
     [scope |-> "AIRModel", name |-> "biases", rank |-> 1]}

\* model.py 205-206: the defaults of the appearance and pose priors
DefaultPriors ==
    /\ appearance_prior = None
    /\ where_scale_prior = None
    /\ where_shift_prior = None

\* train_step has not been called
NotTraining ==
    /\ use_prior = FALSE
    /\ use_reinforce = FALSE
    /\ baseline = None
    /\ l2_weight = 0
    /\ num_steps_prior = None
    /\ DefaultPriors
    /\ trainable = ModelVariables
    /\ baseline_vars = {}
    /\ model_vars = {}
    /\ opt_terms = {}
    /\ train_ops = <<>>
    /\ steps_kl_tables = None
    /\ global_step = 0
    /\ runs = 0
    /\ params = [v \in ModelVariables |-> 1]
    /\ fwd = None
    /\ pending = {}
    /\ written = <<>>
    /\ num_steps_prior_value = None

EmptyState == [image |-> <<>>, canvas |-> <<>>, presence |-> <<>>]

Init ==
    /\ pc = "new"
    /\ max_steps \in 1..MaxCells
    /\ batch_size \in 1..MaxCells
    /\ max_steps * batch_size <= MaxCells
    /\ discrete_steps \in BOOLEAN
    /\ explore_eps \in ExploreEps
    /\ obs = [i \in 1..batch_size |-> i % 2]
    /\ state = EmptyState
    /\ outputs = <<>>
    /\ drawn = <<>>
    /\ final_canvas = None
    /\ num_steps_distrib = None
    /\ num_step_per_sample = None
    /\ NotTraining

\* AIRModel.__init__, AIRModel._build 60-70, AIRCell.__init__: nothing checks
\* explore_eps; the cell is created and its initial state computed
Construct ==
    /\ pc = "new"
    /\ pc' = "unroll"
    /\ state' = initial_state(obs)
    /\ UNCHANGED <<cfgVars, outputs, drawn, modelVars, trainVars>>

\* model.py 72: the input of the unroll, zeros of shape (max_steps, batch, 1)
dummy_sequence ==
    Tensor(<<max_steps, batch_size, 1>>,
           [idx \in Indices(<<max_steps, batch_size, 1>>) |-> 0])

\* cell.py 120-176 for one sample: the new image, canvas and presence and the
\* presence probability, from the step input, the sample's state, the output
\* of the steps predictor, the pasted reconstruction and the Bernoulli sample
AIRCell_build(inpt, image, canvas, presence, raw, inversed, sample) ==
    LET presence_prob == ClippedProb(raw, explore_eps)
        new == NewPresence(presence, presence_prob, sample)
    IN  [image |-> image,
         canvas |-> NewCanvas(canvas, new, inversed),
         presence_prob |-> presence_prob,
         presence |-> new]

\* AIRCell._build, one step of tf.nn.dynamic_rnn over dummy_sequence
CellStep ==
    /\ pc = "unroll"
    /\ Len(outputs) < dummy_sequence.shape[1]
    /\ \E raw \in [Batch -> PresenceProbs], inversed \in [Batch -> Glimpses],
          sample \in [Batch -> {0, D}] :
          LET inpt == [i \in Batch |-> dummy_sequence.at[<<Len(outputs) + 1, i, 1>>]]
              new == [i \in Batch |->
                  AIRCell_build(inpt[i], state.image[i], state.canvas[i],
                                state.presence[i], raw[i], inversed[i], sample[i])]
          IN  /\ \A i \in Batch :
                    sample[i] \in IF discrete_steps
                                  THEN BernoulliSamples(new[i].presence_prob)
                                  ELSE {D}
              /\ outputs' = Append(outputs,
                    [canvas |-> [i \in Batch |-> new[i].canvas],
                     presence_prob |-> [i \in Batch |-> new[i].presence_prob],
                     presence |-> [i \in Batch |-> new[i].presence]])
              /\ state' = [image |-> [i \in Batch |-> new[i].image],
                           canvas |-> [i \in Batch |-> new[i].canvas],
                           presence |-> [i \in Batch |-> new[i].presence]]
              /\ drawn' = Append(drawn,
                    [new_presence |-> sample, inversed |-> inversed])
    /\ UNCHANGED <<pc, cfgVars, modelVars, trainVars>>

\* ------------------------------------------------------------ the model
\* prior.py, NumStepsDistribution: the chain of Bernoulli probabilities along
\* the last axis of probs gives the mass of every count 0..n of steps taken;
\* the entries of a row are in units of 1/D^n, entry k+1 is the mass of count k
NumStepsDistribution(probs) ==
    LET r == Len(probs.shape)
        n == probs.shape[r]
        front == SubSeq(probs.shape, 1, r - 1)
        p(f, k) == probs.at[f \o <<k>>]
        taken(f, k) == ProdOver(k, [j \in 1..n |-> p(f, j)])
    IN  Tensor(front \o <<n + 1>>,
               [idx \in Indices(front \o <<n + 1>>) |->
                   LET f == SubSeq(idx, 1, r - 1)
                       k == idx[r] - 1
                   IN  IF k = n THEN taken(f, n)
                       ELSE taken(f, k) * (D - p(f, k + 1)) * Pow(D, n - k - 1)])

\* model.py 85: tf.transpose(tf.squeeze(self.presence_prob))
posterior_step_probs(outs, batch) ==
    transpose(squeeze(Stacked(outs, batch, "presence_prob")))

\* model.py 88 with presence_prob summed in place of presence
NumStepPerSampleOfProbs(outs, batch) ==
    squeeze(reduce_sum0(Stacked(outs, batch, "presence_prob")))

\* model.py 88: tf.squeeze(tf.reduce_sum(self.presence, 0))
NumStepPerSample(outs, batch) ==
    squeeze(reduce_sum0(Stacked(outs, batch, "presence")))

\* model.py 81 with the first canvas of the sequence taken
FinalCanvasFirst(outs) == outs[1].canvas

\* model.py 81: self.canvas[-1]
FinalCanvas(outs) == outs[Len(outs)].canvas

\* AIRModel._build 74-90, once dynamic_rnn has run over dummy_sequence
Assemble ==
    /\ pc = "unroll"
    /\ Len(outputs) = dummy_sequence.shape[1]
    /\ LET probs == posterior_step_probs(outputs, batch_size)
       IN  IF probs.shape = <<>>
           THEN /\ pc' = "shape_error"
                /\ UNCHANGED modelVars
           ELSE /\ pc' = "assembled"
                /\ final_canvas' = FinalCanvas(outputs)
                /\ num_steps_distrib' = NumStepsDistribution(probs)
                /\ num_step_per_sample' = NumStepPerSample(outputs, batch_size)
    /\ UNCHANGED <<cfgVars, cellVars, trainVars>>

Next == Construct \/ CellStep \/ Assemble

\* ------------------------------------------------------------ training
\* Scalars of the objective are in units of 1/Scale, so that a mean over
\* batch_size or batch_size^2 entries and half a square are integers.
Scale == 2 * batch_size * batch_size

\* tf.reduce_mean
reduce_mean(x) == (Scale * reduce_sum(x)) \div Size(x)

\* the variables the baseline module creates when it is connected
BaselineVariables ==
    {[scope |-> "BaselineMLP", name |-> "weights", rank |-> 2],
     [scope |-> "BaselineMLP", name |-> "biases", rank |-> 1]}

\* tf.get_collection(tf.GraphKeys.TRAINABLE_VARIABLES, scope = ...)
get_collection(collection, scope) == {v \in collection : v.scope = scope}

\* model.py 274 without the subtraction of the baseline variables
ModelVarsAll(all, bvars) == all

\* model.py 274
ModelVars(all, bvars) == all \ bvars

\* model.py 201 with the counter handed to the baseline optimizer as well
BaselineGlobalStepCounted(g) == g + 1

\* model.py 201: minimize() is called without global_step
BaselineGlobalStep(g) == g

\* model.py 276 with the test l2_weight >= 0.
ObjectiveTermsL2Always(prior, reinforce, l2) ==
    {"rec"} \cup (IF prior THEN {"prior"} ELSE {})
            \cup (IF reinforce THEN {"reinforce"} ELSE {})
            \cup (IF l2 >= 0 THEN {"l2"} ELSE {})

\* model.py 255-280: the terms summed into opt_loss
ObjectiveTerms(prior, reinforce, l2) ==
    {"rec"} \cup (IF prior THEN {"prior"} ELSE {})
            \cup (IF reinforce THEN {"reinforce"} ELSE {})
            \cup (IF l2 > 0 THEN {"l2"} ELSE {})

\* ops.py, Loss: a scalar and a per-sample vector, composed by addition
EmptyLoss == [value |-> 0, per_sample |-> PerSample([i \in Batch |-> 0])]
LossAdd(loss, value, per_sample) ==
    [value |-> loss.value + value,
     per_sample |-> Broadcast(loss.per_sample, per_sample, "add")]

\* model.py 182-184
ImportanceWeight(per_sample, bl) ==
    IF bl # None
    THEN Broadcast(per_sample, bl[1], "sub")
    ELSE per_sample

\* model.py 186-187
ReinforceLoss(per_sample, bl, log_prob) ==
    reduce_mean(Broadcast(ImportanceWeight(per_sample, bl), log_prob, "mul"))

\* model.py 278-279 without the filter on the rank of line 278
L2LossWithBiases(weight, variables, values) ==
    weight * SumAt([w \in variables |-> (Scale * values[w] * values[w]) \div 2],
                   variables)

\* model.py 278-279; tf.nn.l2_loss(w) is sum(w^2) / 2
L2Loss(weight, variables, values) ==
    LET weights == {w \in variables : w.rank = 2}
    IN  weight * SumAt([w \in weights |-> (Scale * values[w] * values[w]) \div 2],
                       weights)

\* The prior of the number of steps.  A prior value is a power of two,
\* 2^(-e), and init and final hold the exponent e; an annealed value is
\* returned as the numerator of a fraction over PriorDen(nsp).
MaxE == MaxExponent * Max(MaxAnnealSteps, MaxRuns)
PriorDen(nsp) == Pow(2, MaxE) * nsp.steps
PriorNum(nsp, e) == Pow(2, MaxE - e) * nsp.steps

\* model.py 106-107 without the floor of line 112
ExpAnnealNoFloor(nsp, g) ==
    LET decay_rate == ((nsp.final - nsp.init) * nsp.steps_div) \div nsp.steps
        val == nsp.init + (decay_rate * g) \div nsp.steps_div
    IN  PriorNum(nsp, val)

\* model.py 106-107 and 112: init * decay_rate^(g / steps_div) with
\* decay_rate = (final / init)^(steps_div / steps), not below final
ExpAnneal(nsp, g) ==
    LET decay_rate == ((nsp.final - nsp.init) * nsp.steps_div) \div nsp.steps
        val == nsp.init + (decay_rate * g) \div nsp.steps_div
    IN  PriorNum(nsp, Min(nsp.final, val))

\* model.py 110 without the floor of line 112
LinearAnnealNoFloor(nsp, g) ==
    LET init == Pow(2, MaxE - nsp.init)
        final == Pow(2, MaxE - nsp.final)
    IN  final * nsp.steps + (init - final) * (nsp.steps - g)

\* model.py 110 and 112
LinearAnneal(nsp, g) ==
    LET init == Pow(2, MaxE - nsp.init)
        final == Pow(2, MaxE - nsp.final)
        val == final * nsp.steps + (init - final) * (nsp.steps - g)
    IN  Max(final * nsp.steps, val)

\* model.py 98-114
NumStepsPriorValue(nsp, g) ==
    IF nsp.anneal = "exp" THEN ExpAnneal(nsp, g)
    ELSE IF nsp.anneal = "linear" THEN LinearAnneal(nsp, g)
    ELSE PriorNum(nsp, nsp.init)

\* ------------------------------------------------------------ the prior term
\* model.py 116: the number of steps handed to geometric_prior
GeometricPriorSteps == 3

\* prior.py, geometric_prior(success_prob, n_steps): a table over the counts
\* 0..n_steps
geometric_prior_shape(steps) == <<steps + 1>>

\* the shape of the step-count posterior's table for the shape of the model:
\* model.py 85-86 applied to presence probabilities of shape (steps, batch, 1)
PosteriorTableShape(steps, batch) ==
    LET outs == [t \in 1..steps |-> [presence_prob |-> [i \in 1..batch |-> Half]]]
    IN  NumStepsDistribution(posterior_step_probs(outs, batch)).shape

\* two shapes broadcast: aligned at the last axes, sizes are equal or one is 1
Compatible(s1, s2) ==
    \A p \in 1..Min(Len(s1), Len(s2)) :
        LET a == s1[Len(s1) + 1 - p]
            b == s2[Len(s2) + 1 - p]
        IN  a = b \/ a = 1 \/ b = 1

\* model.py 117-118: tabular_kl is elementwise over the two tables and the sum
\* over axis 1 needs a table of rank two
StepsKLBuilds(post, prior) ==
    Compatible(post, prior) /\ Max(Len(post), Len(prior)) >= 2

\* the exception the construction of the objective ends with, if any
\* (model.py 117-118, 145, 152)
BuildError ==
    IF ~use_prior THEN None
    ELSE IF /\ num_steps_prior # None
            /\ ~StepsKLBuilds(PosteriorTableShape(max_steps, batch_size),
                              geometric_prior_shape(GeometricPriorSteps))
         THEN Some("shape_error")
    ELSE IF appearance_prior # None /\ where_scale_prior = None
         THEN Some("attribute_error")
    ELSE IF appearance_prior # None /\ where_shift_prior = None
         THEN Some("type_error")
    ELSE None

\* a per-step quantity of shape (steps, batch, 1) with the same value at every
\* step of a sample
PerStep(steps, f) ==
    Tensor(<<steps, Len(f), 1>>,
           [idx \in Indices(<<steps, Len(f), 1>>) |-> f[idx[2]]])

\* the emitted presence of an unroll in which sample i took taken[i] steps
PresenceOf(steps, taken) ==
    Tensor(<<steps, Len(taken), 1>>,
           [idx \in Indices(<<steps, Len(taken), 1>>) |->
               IF idx[1] <= taken[idx[2]] THEN D ELSE 0])

\* kl * self.presence (model.py 129, 159); presence is in units of 1/D
Gated(kl, presence) ==
    LET g == Broadcast(kl, presence, "mul")
    IN  Tensor(g.shape, [idx \in Indices(g.shape) |-> g.at[idx] \div D])

\* model.py 129-130
AppearancePriorLossPerSample(what_kl, presence) ==
    squeeze(reduce_sum0(Gated(what_kl, presence)))

\* model.py 159-160
WhereKLPerSample(where_kl, presence) ==
    reduce_sum0(squeeze(Gated(where_kl, presence)))

\* model.py 92-165: _prior_loss
PriorLoss(steps_kl, what_kl, where_kl, presence) ==
    LET with_steps ==
            IF num_steps_prior # None
            THEN LossAdd(EmptyLoss, reduce_mean(steps_kl), steps_kl)
            ELSE EmptyLoss
        appearance == AppearancePriorLossPerSample(what_kl, presence)
        where == WhereKLPerSample(where_kl, presence)
    IN  IF appearance_prior # None
        THEN LossAdd(LossAdd(with_steps, reduce_mean(appearance), appearance),
                     reduce_mean(where), where)
        ELSE with_steps

\* the appearance and pose priors that are configured
ConfiguredPriors ==
    (IF appearance_prior # None THEN {"appearance"} ELSE {})
        \cup (IF where_scale_prior # None /\ where_shift_prior # None
              THEN {"where"} ELSE {})

\* what the forward pass can evaluate to, per sample
RecLosses == {1, 2}
KLs == {1}
WhatKLs == {1}
WhereKLs == {2}
Baselines == {0, 1}
LogProbs == {0 - 2, 0 - 1}

NumStepsPriors(anneals) ==
    {[anneal |-> a, init |-> i * n, final |-> f * n, steps |-> n, steps_div |-> d] :
        a \in anneals, i \in 0..MaxExponent, f \in 0..MaxExponent,
        n \in 2..MaxAnnealSteps, d \in {1, 2}}

\* a prior that is not annealed
ConstantPrior ==
    [anneal |-> "None", init |-> 1, final |-> 1, steps |-> 1, steps_div |-> 1]

\* multi_mnist.py 20: the number of steps the training script configures
n_steps == 3

\* the model is built, train_step has not been called
ModelBuilt ==
    /\ pc = "model"
    /\ discrete_steps = TRUE
    /\ explore_eps = None
    /\ obs = [i \in 1..batch_size |-> i % 2]
    /\ state = EmptyState
    /\ outputs = <<>>
    /\ drawn = <<>>
    /\ final_canvas = None
    /\ num_steps_distrib = None
    /\ num_step_per_sample = None
    /\ trainable = ModelVariables
    /\ baseline_vars = {}
    /\ model_vars = {}
    /\ opt_terms = {}
    /\ train_ops = <<>>
    /\ steps_kl_tables = None
    /\ global_step = 0
    /\ runs = 0
    /\ params = [v \in ModelVariables |-> 1]
    /\ fwd = None
    /\ pending = {}
    /\ written = <<>>
    /\ num_steps_prior_value = None

InitTrain ==
    /\ batch_size \in 1..MaxBatch
    /\ use_prior \in BOOLEAN
    /\ use_reinforce \in BOOLEAN
    /\ baseline \in {None, Some("BaselineMLP")}
    /\ l2_weight \in {0, 1}
    /\ num_steps_prior \in {None, Some(ConstantPrior)}
    /\ DefaultPriors
    /\ max_steps = n_steps
    /\ ModelBuilt

\* train_step with an annealed prior; the batch has two samples, the
\* step-count KL of a batch of one does not build (model.py 118)
InitAnneal ==
    /\ batch_size = 2
    /\ use_prior = TRUE
    /\ use_reinforce = FALSE
    /\ baseline = Some("BaselineMLP")
    /\ l2_weight = 0
    /\ num_steps_prior \in {Some(n) : n \in NumStepsPriors({"exp", "linear"})}
    /\ DefaultPriors
    /\ max_steps = n_steps
    /\ ModelBuilt

\* model.py 116-117: the tables the step-count KL compares
StepsKLTables ==
    IF use_prior /\ num_steps_prior # None
    THEN Some([posterior |-> PosteriorTableShape(max_steps, batch_size),
               prior |-> geometric_prior_shape(GeometricPriorSteps)])
    ELSE None

\* AIRModel.train_step builds the objective and the train operations, or
\* raises while it builds the prior term
TrainStepBuild ==
    /\ pc = "model"
    /\ steps_kl_tables' = StepsKLTables
    /\ IF BuildError # None
       THEN /\ pc' = BuildError[1]
            /\ UNCHANGED <<trainable, baseline_vars, model_vars, opt_terms,
                           train_ops, params>>
       ELSE /\ pc' = "train"
            /\ LET connected == use_reinforce /\ baseline # None
                   all == IF connected THEN trainable \cup BaselineVariables
                          ELSE trainable
                   bvars == IF connected THEN get_collection(all, baseline[1]) ELSE {}
               IN  /\ trainable' = all
                   /\ baseline_vars' = bvars
                   /\ model_vars' = ModelVars(all, bvars)
                   /\ train_ops' =
                         (IF connected THEN <<"baseline_train_step">> ELSE <<>>)
                             \o <<"true_train_step">>
                   /\ params' = [v \in all |->
                                    IF v \in DOMAIN params THEN params[v] ELSE 1]
            /\ opt_terms' = ObjectiveTerms(use_prior, use_reinforce, l2_weight)
    /\ UNCHANGED <<cfgVars, cellVars, modelVars, trainCfg,
                   global_step, runs, fwd, pending, written, num_steps_prior_value>>

\* sess.run([global_step, train_step]) starts: the forward pass is evaluated
SessRun ==
    /\ pc = "train"
    /\ pending = {}
    /\ runs < MaxRuns
    /\ \E rec \in [Batch -> RecLosses],
          kl \in [Batch -> IF use_prior /\ num_steps_prior # None THEN KLs ELSE {0}],
          bl \in [Batch -> IF baseline_vars # {} THEN Baselines ELSE {0}],
          lp \in [Batch -> IF use_reinforce THEN LogProbs ELSE {0}],
          taken \in [Batch -> IF use_prior /\ ConfiguredPriors # {}
                              THEN 0..max_steps ELSE {max_steps}],
          what \in [Batch -> IF use_prior /\ "appearance" \in ConfiguredPriors
                             THEN WhatKLs ELSE {0}],
          where \in [Batch -> IF use_prior /\ "where" \in ConfiguredPriors
                              THEN WhereKLs ELSE {0}] :
          LET rec_loss_per_sample == PerSample(rec)
              rec_loss == reduce_mean(rec_loss_per_sample)
              prior_loss == PriorLoss(PerSample(kl), PerStep(max_steps, what),
                                      PerStep(max_steps, where),
                                      PresenceOf(max_steps, taken))
              rec_only == LossAdd(EmptyLoss, rec_loss, rec_loss_per_sample)
              loss == IF use_prior
                      THEN LossAdd(rec_only, prior_loss.value, prior_loss.per_sample)
                      ELSE rec_only
              base == IF use_reinforce /\ baseline # None THEN Some(Column(bl)) ELSE None
              log_prob == PerSample(lp)
              term == [t \in {"rec", "prior", "reinforce", "l2"} |->
                  IF t = "rec" THEN rec_loss
                  ELSE IF t = "prior" THEN prior_loss.value
                  ELSE IF t = "reinforce"
                       THEN ReinforceLoss(loss.per_sample, base, log_prob)
                  ELSE L2Loss(l2_weight, model_vars, params)]
          IN  fwd' = Some([rec_loss_per_sample |-> rec_loss_per_sample,
                           steps_kl |-> kl,
                           what_kl |-> what,
                           where_kl |-> where,
                           taken |-> taken,
                           loss |-> loss,
                           baseline |-> base,
                           log_prob |-> log_prob,
                           term |-> term,
                           opt_loss |-> SumAt(term, opt_terms)])
    /\ num_steps_prior_value' =
          IF use_prior /\ num_steps_prior # None
          THEN Some([at |-> global_step,
                     value |-> NumStepsPriorValue(num_steps_prior[1], global_step)])
          ELSE num_steps_prior_value
    /\ runs' = runs + 1
    /\ pending' = {train_ops[k] : k \in 1..Len(train_ops)}
    /\ written' = <<>>
    /\ UNCHANGED <<pc, cfgVars, cellVars, modelVars, trainCfg, graphVars,
                   global_step, params>>

\* model.py 200-201: the baseline optimizer, ten times the learning rate
BaselineTrainStep ==
    /\ "baseline_train_step" \in pending
    /\ pending' = pending \ {"baseline_train_step"}
    /\ params' = [v \in DOMAIN params |->
                     IF v \in baseline_vars THEN params[v] - 10 ELSE params[v]]
    /\ global_step' = BaselineGlobalStep(global_step)
    /\ written' = Append(written, [op |-> "baseline_train_step", vars |-> baseline_vars])
    /\ fwd' = IF pending' = {} THEN None ELSE fwd
    /\ UNCHANGED <<pc, cfgVars, cellVars, modelVars, trainCfg, graphVars,
                   runs, num_steps_prior_value>>

\* model.py 283-285: the main optimizer, which also advances global_step
TrueTrainStep ==
    /\ "true_train_step" \in pending
    /\ pending' = pending \ {"true_train_step"}
    /\ params' = [v \in DOMAIN params |->
                     IF v \in model_vars THEN params[v] - 1 ELSE params[v]]
    /\ global_step' = global_step + 1
    /\ written' = Append(written, [op |-> "true_train_step", vars |-> model_vars])
    /\ fwd' = IF pending' = {} THEN None ELSE fwd
    /\ UNCHANGED <<pc, cfgVars, cellVars, modelVars, trainCfg, graphVars,
                   runs, num_steps_prior_value>>

NextTrain == TrainStepBuild \/ SessRun \/ BaselineTrainStep \/ TrueTrainStep

SpecTrain == InitTrain /\ [][NextTrain]_vars

\* training without REINFORCE: train_step returns the main step alone
NextWithoutReinforce == TrainStepBuild \/ SessRun \/ TrueTrainStep

SpecAnneal == InitAnneal /\ [][NextWithoutReinforce]_vars

\* train_step called with every combination of priors on a model of any shape
\* that AIRModel._build constructs
InitPrior ==
    /\ batch_size \in 1..MaxBatch
    /\ max_steps \in 1..MaxCells
    /\ squeeze(Tensor(<<max_steps, batch_size, 1>>,
                      [idx \in Indices(<<max_steps, batch_size, 1>>) |-> 0])).shape
          # <<>>
    /\ use_prior \in BOOLEAN
    /\ use_reinforce = FALSE
    /\ baseline = None
    /\ l2_weight = 0
    /\ num_steps_prior \in {None, Some(ConstantPrior)}
    /\ appearance_prior \in {None, Some("Normal")}
    /\ where_scale_prior \in {None, Some("Normal")}
    /\ where_shift_prior \in {None, Some("Normal")}
    /\ ModelBuilt

SpecPrior == InitPrior /\ [][NextWithoutReinforce]_vars

\* ------------------------------------------------------------ training, checked
\* C3: every invocation of the train operations advances global_step by
\* exactly one, with or without REINFORCE and a baseline step; the baseline
\* step leaves the counter alone and the counter never decreases
C3_CounterAdvancesOncePerRun ==
    [][/\ global_step' >= global_step
       /\ ("baseline_train_step" \in pending /\ "baseline_train_step" \notin pending')
             => global_step' = global_step
       /\ ("true_train_step" \in pending /\ "true_train_step" \notin pending')
             => global_step' = global_step + 1
       /\ (pending # {} /\ pending' = {}) => global_step' = runs']_vars

\* two invocations have completed with a baseline step in each, the last one
\* running the main step first
C3_Witness ==
    /\ use_reinforce
    /\ Len(train_ops) = 2
    /\ pending = {}
    /\ runs = 2
    /\ global_step = 2
    /\ Len(written) = 2
    /\ written[1].op = "true_train_step"

NumStepsPrior == num_steps_prior[1]

\* C5: with linear annealing and init >= final the prior value evaluated at
\* counter g is init at g = 0, final + (init - final) * (1 - g / steps) up to
\* g = steps, final at g = steps and final for every larger g
C5_LinearAnneal ==
    (/\ num_steps_prior_value # None
     /\ NumStepsPrior.anneal = "linear"
     /\ NumStepsPrior.init <= NumStepsPrior.final) =>
        LET g == num_steps_prior_value[1].at
            val == num_steps_prior_value[1].value
            nsp == NumStepsPrior
            init == PriorNum(nsp, nsp.init)
            final == PriorNum(nsp, nsp.final)
        IN  /\ g = 0 => val = init
            /\ g <= nsp.steps =>
                  val * nsp.steps = final * nsp.steps + (init - final) * (nsp.steps - g)
            /\ g >= nsp.steps => val = final

\* the prior was evaluated beyond the end of a strictly decreasing schedule
C5_Witness ==
    /\ num_steps_prior_value # None
    /\ NumStepsPrior.anneal = "linear"
    /\ NumStepsPrior.init < NumStepsPrior.final
    /\ num_steps_prior_value[1].at > NumStepsPrior.steps

\* C6: with exponential annealing and init >= final > 0 the prior value is
\* init at counter 0, does not increase as the counter grows and is never
\* below final
C6_ExpAnneal ==
    [][(/\ num_steps_prior_value' # None
        /\ NumStepsPrior.anneal = "exp"
        /\ NumStepsPrior.init <= NumStepsPrior.final) =>
           LET new == num_steps_prior_value'[1]
               nsp == NumStepsPrior
           IN  /\ new.at = 0 => new.value = PriorNum(nsp, nsp.init)
               /\ new.value >= PriorNum(nsp, nsp.final)
               /\ num_steps_prior_value # None =>
                     new.value <= num_steps_prior_value[1].value]_vars

\* the prior was evaluated beyond the end of a strictly decreasing schedule
C6_Witness ==
    /\ num_steps_prior_value # None
    /\ NumStepsPrior.anneal = "exp"
    /\ NumStepsPrior.init < NumStepsPrior.final
    /\ num_steps_prior_value[1].at > NumStepsPrior.steps
    /\ num_steps_prior_value[1].value = PriorNum(NumStepsPrior, NumStepsPrior.final)

\* the batch mean of a per-sample vector given as a function over the batch
BatchMean(f) == (Scale * SumOver(batch_size, f)) \div batch_size

\* C7: without prior, REINFORCE and L2 the objective is exactly the
\* reconstruction term, the batch mean of the per-sample reconstruction loss,
\* and the only train operation is the main one
C7_ReconstructionOnly ==
    (pc = "train" /\ ~use_prior /\ ~use_reinforce /\ l2_weight = 0) =>
        /\ opt_terms = {"rec"}
        /\ train_ops = <<"true_train_step">>
        /\ fwd # None =>
              fwd[1].opt_loss =
                  BatchMean([i \in Batch |-> fwd[1].rec_loss_per_sample.at[<<i>>]])

\* an invocation under that configuration, with a baseline module supplied
C7_Witness ==
    /\ ~use_prior /\ ~use_reinforce /\ l2_weight = 0
    /\ baseline # None
    /\ batch_size > 1
    /\ fwd # None
    /\ fwd[1].opt_loss > 0

\* C8: with REINFORCE the surrogate term is the batch mean of
\* (per-sample total loss - the sample's own baseline) * the sample's own
\* log-probability (the baseline being 0 when there is none), and it is added
\* to the objective
C8_ReinforcePairsOwnBaseline ==
    (fwd # None /\ use_reinforce) =>
        LET f == fwd[1]
            b(i) == IF f.baseline = None THEN 0 ELSE f.baseline[1].at[<<i, 1>>]
            surrogate == BatchMean([i \in Batch |->
                (f.loss.per_sample.at[<<i>>] - b(i)) * f.log_prob.at[<<i>>]])
        IN  /\ f.term["reinforce"] = surrogate
            /\ f.opt_loss = f.loss.value + surrogate
                              + (IF l2_weight > 0 THEN f.term["l2"] ELSE 0)

IsBaselineVariable(v) == v.scope = "BaselineMLP"

\* C10: with REINFORCE and a baseline, the main step assigns only variables
\* outside the baseline module and the baseline step only variables of the
\* baseline module; together they assign every trainable variable once, and
\* the values after an invocation are the same in either order
C10_DisjointOptimizerWrites ==
    (pc = "train" /\ use_reinforce /\ baseline # None) =>
        /\ \A k \in 1..Len(written) :
              \A v \in written[k].vars :
                  IsBaselineVariable(v) <=> written[k].op = "baseline_train_step"
        /\ (pending = {} /\ runs > 0) =>
              /\ Len(written) = 2
              /\ written[1].vars \cap written[2].vars = {}
              /\ written[1].vars \cup written[2].vars = trainable
              /\ \A v \in trainable :
                    params[v] = 1 - runs * (IF IsBaselineVariable(v) THEN 10 ELSE 1)

\* an invocation has completed in which the main step ran before the baseline step
C10_Witness ==
    /\ use_reinforce /\ baseline # None
    /\ pending = {}
    /\ Len(written) = 2
    /\ written[1].op = "true_train_step"
    /\ written[2].vars # {}

\* half the sum of the squares of the rank-2 variables of a set, at the
\* current values
SquaredWeights(variables) ==
    LET weights == {w \in variables : w.rank = 2}
    IN  SumAt([w \in weights |-> (Scale * params[w] * params[w]) \div 2], weights)

\* the objective without the regularization term
UnregularizedObjective ==
    fwd[1].loss.value + (IF use_reinforce THEN fwd[1].term["reinforce"] ELSE 0)

\* the forward pass of an invocation was evaluated and no variable has been
\* assigned since
Evaluated == fwd # None /\ written = <<>>

\* C11 as stated: with l2_weight > 0 the regularization term added to the
\* objective is l2_weight times the squared-weight penalties of all rank-2
\* trainable variables, the variables of any other rank excluded; with
\* l2_weight = 0 no term is added
C11_L2OverAllTrainableWeights ==
    Evaluated =>
        IF l2_weight > 0
        THEN /\ fwd[1].term["l2"] = l2_weight * SquaredWeights(trainable)
             /\ fwd[1].opt_loss = UnregularizedObjective + fwd[1].term["l2"]
        ELSE /\ "l2" \notin opt_terms
             /\ fwd[1].opt_loss = UnregularizedObjective

\* C11 as amended: the penalties are those of the rank-2 trainable variables
\* outside the baseline module, the ones the main optimizer is given
C11_L2OverModelWeights ==
    Evaluated =>
        IF l2_weight > 0
        THEN /\ fwd[1].term["l2"] =
                   l2_weight * SquaredWeights({v \in trainable : ~IsBaselineVariable(v)})
             /\ fwd[1].opt_loss = UnregularizedObjective + fwd[1].term["l2"]
        ELSE /\ "l2" \notin opt_terms
             /\ fwd[1].opt_loss = UnregularizedObjective

\* a regularized objective was evaluated with a baseline module connected,
\* after an earlier invocation had moved the weights
C11_Witness ==
    /\ Evaluated
    /\ l2_weight > 0
    /\ baseline_vars # {}
    /\ runs > 1
    /\ fwd[1].term["l2"] > 0

\* the batch mean of a KL that is kl[i] at every step sample i was present at
GatedKLMean(kl) == BatchMean([i \in Batch |-> fwd[1].taken[i] * kl[i]])

\* C12: with the prior term enabled it is the sum of the step-count KL, the
\* presence-gated appearance KL and the presence-gated pose KL, each there
\* whenever its own prior is configured; the pose KL is there whenever the
\* where-scale and where-shift priors are, with or without an appearance
\* prior; the term is added to the objective
C12_PriorTermSumsConfiguredKLs ==
    (Evaluated /\ use_prior) =>
        /\ fwd[1].term["prior"] =
              (IF num_steps_prior # None THEN BatchMean(fwd[1].steps_kl) ELSE 0)
              + (IF appearance_prior # None
                 THEN GatedKLMean(fwd[1].what_kl) ELSE 0)
              + (IF where_scale_prior # None /\ where_shift_prior # None
                 THEN GatedKLMean(fwd[1].where_kl) ELSE 0)
        /\ fwd[1].loss.value = fwd[1].term["rec"] + fwd[1].term["prior"]

\* C16: for every max_steps the geometric prior's table of the step-count KL
\* is over the counts 0..max_steps, as many entries as a row of the
\* posterior's table has
C16_PriorTableMatchesPosterior ==
    steps_kl_tables # None =>
        LET prior == steps_kl_tables[1].prior
            posterior == steps_kl_tables[1].posterior
        IN  /\ prior = <<max_steps + 1>>
            /\ prior[Len(prior)] = posterior[Len(posterior)]

\* ------------------------------------------------------------ the cell, checked
Steps == 1..Len(outputs)

\* C1: over the steps of an unroll the emitted presence of every sample never
\* increases in discrete mode (starting from the initial presence 1), and in
\* both modes, with or without an exploration floor, it lies in [0,1]
C1_PresenceMonotoneBounded ==
    \A t \in Steps : \A i \in Batch :
        /\ 0 <= outputs[t].presence[i]
        /\ outputs[t].presence[i] <= D
        /\ discrete_steps =>
              outputs[t].presence[i] <=
                  (IF t = 1 THEN initial_state(obs).presence[i]
                   ELSE outputs[t - 1].presence[i])

\* C2: in discrete mode, once the presence of a sample is 0 after a step, the
\* canvas of that sample is the same after every later step, and so is
\* final_canvas
C2_ZeroPresenceFreezesCanvas ==
    discrete_steps =>
        \A t \in Steps : \A i \in Batch :
            outputs[t].presence[i] = 0 =>
                /\ \A u \in Steps : u > t => outputs[u].canvas[i] = outputs[t].canvas[i]
                /\ pc = "assembled" => final_canvas[i] = outputs[t].canvas[i]

\* a sample was switched off after it had painted the canvas, and a later step
\* drew its Bernoulli sample from probability 1
C2_Witness ==
    /\ discrete_steps
    /\ pc = "assembled"
    /\ \E t \in Steps : \E i \in Batch :
          /\ t + 1 \in Steps
          /\ outputs[t].presence[i] = 0
          /\ outputs[t].canvas[i] # 0
          /\ outputs[t + 1].presence_prob[i] = D

ValidExploreEps(eps) == eps = None \/ (0 < eps[1] /\ 2 * eps[1] < D)

\* C9: an exploration floor that is set but not strictly between 0 and 0.5
\* never yields a constructed cell
C9_BadExploreEpsRejected == ~ValidExploreEps(explore_eps) => pc = "new"

InteriorProbs ==
    \A t \in Steps : \A i \in Batch :
        0 < outputs[t].presence_prob[i] /\ outputs[t].presence_prob[i] < D

\* C4: for presence probabilities strictly between 0 and 1, the step-count
\* posterior has for every sample one row over exactly the counts 0..max_steps
\* and the mass of that row sums to 1
C4_PosteriorMassSumsToOne ==
    (pc = "assembled" /\ InteriorProbs) =>
        LET table == num_steps_distrib
            r == Len(table.shape)
            row(i) == IF r = 2 THEN <<i>> ELSE <<>>
        IN  /\ table.shape \in {<<batch_size, max_steps + 1>>, <<max_steps + 1>>}
            /\ r = 1 => batch_size = 1
            /\ \A i \in Batch :
                  SumOver(max_steps + 1,
                          [k \in 1..(max_steps + 1) |-> table.at[row(i) \o <<k>>]])
                      = Pow(D, max_steps)

\* the values a step input could have
StepInputs == 0..MaxPixel

\* a step of the unroll has just been taken
Stepped == pc = "unroll" /\ Len(outputs') = Len(outputs) + 1

\* C13: the unroll takes exactly max_steps steps, each of them for every
\* sample whatever its presence is; what a step emits and passes on is the
\* same for every value of the step input; final_canvas is the canvas
\* emitted by step max_steps
C13_UnrollsMaxSteps ==
    [][/\ (pc = "unroll" /\ pc' # "unroll") => Len(outputs) = max_steps
       /\ Stepped =>
             /\ Len(outputs') <= max_steps
             /\ \A i \in Batch : \A x \in StepInputs : \E raw \in PresenceProbs :
                   AIRCell_build(x, state.image[i], state.canvas[i],
                                 state.presence[i], raw,
                                 drawn'[Len(drawn')].inversed[i],
                                 drawn'[Len(drawn')].new_presence[i])
                     = [image |-> state'.image[i],
                        canvas |-> outputs'[Len(outputs')].canvas[i],
                        presence_prob |-> outputs'[Len(outputs')].presence_prob[i],
                        presence |-> outputs'[Len(outputs')].presence[i]]
       /\ pc' = "assembled" =>
             /\ Len(outputs') = max_steps
             /\ final_canvas' = outputs'[max_steps].canvas]_vars

\* a model was assembled in which a sample was absent after the first step
\* and was stepped to the end, its last Bernoulli sample being 1
C13_Witness ==
    /\ pc = "assembled"
    /\ discrete_steps
    /\ max_steps > 2
    /\ \E i \in Batch :
          /\ outputs[1].presence[i] = 0
          /\ drawn[max_steps].new_presence[i] = D
          /\ final_canvas[i] = outputs[max_steps].canvas[i]

\* C14: in soft mode the presence emitted and carried in the state at every
\* step is that step's own presence probability, clipped if there is an
\* exploration floor, whatever the presence was before
C14_SoftPresenceIsOwnProbability ==
    ~discrete_steps =>
        \A t \in Steps : \A i \in Batch :
            /\ outputs[t].presence[i] = outputs[t].presence_prob[i]
            /\ \E raw \in PresenceProbs :
                  outputs[t].presence[i] = ClippedProb(raw, explore_eps)
            /\ t = Len(outputs) => state.presence[i] = outputs[t].presence_prob[i]

\* in soft mode the presence of a sample was 0 at a step and 1 at the next
C14_Witness ==
    /\ ~discrete_steps
    /\ \E t \in Steps : \E i \in Batch :
          /\ t + 1 \in Steps
          /\ outputs[t].presence[i] = 0
          /\ outputs[t + 1].presence[i] = D
          /\ state.presence[i] = D

\* presence_t * pasted_reconstruction_t of sample i, for the steps up to k
Pasted(k, i) == [t \in 1..k |-> outputs[t].presence[i] * drawn[t].inversed[i]]

\* C15: after every step k the canvas in the state is the canvas emitted at
\* step k, which is the zero canvas plus the sum over the steps t <= k of
\* presence_t * pasted_reconstruction_t; the image in the state is the input
\* image at every step
C15_CanvasIsGatedSum ==
    pc # "new" =>
        /\ state.image = obs
        /\ \A i \in Batch :
              state.canvas[i] = SumOver(Len(outputs), Pasted(Len(outputs), i))
        /\ \A k \in Steps : \A i \in Batch :
              /\ outputs[k].canvas[i] = SumOver(k, Pasted(k, i))
              /\ k = Len(outputs) => state.canvas[i] = outputs[k].canvas[i]

\* a canvas that two steps painted with different presence
C15_Witness ==
    /\ Len(outputs) >= 2
    /\ \E i \in Batch :
          /\ outputs[1].presence[i] \notin {0, outputs[2].presence[i]}
          /\ outputs[2].presence[i] # 0
          /\ outputs[1].canvas[i] # 0
          /\ state.canvas[i] \notin {0, outputs[1].canvas[i]}

\* the number of steps of sample i before the first Bernoulli sample equal to 0
StepsBeforeFirstZero(i) ==
    LET zeros == {t \in Steps : drawn[t].new_presence[i] = 0}
    IN  IF zeros = {} THEN Len(outputs)
        ELSE (CHOOSE t \in zeros : \A u \in zeros : t <= u) - 1

\* C17: in discrete mode the presence emitted for a sample is 1 at the k
\* steps before its first Bernoulli sample equal to 0 and 0 from then on, and
\* num_step_per_sample is that k, an integer in 0..max_steps
C17_PresenceIsOnesThenZeros ==
    discrete_steps =>
        \A i \in Batch :
            LET k == StepsBeforeFirstZero(i)
            IN  /\ \A t \in Steps :
                      outputs[t].presence[i] = (IF t <= k THEN D ELSE 0)
                /\ pc = "assembled" =>
                      /\ k \in 0..max_steps
                      /\ num_step_per_sample.at[
                             IF num_step_per_sample.shape = <<>> THEN <<>> ELSE <<i>>]
                            = k * D

\* a model was assembled in which a sample took one step and then drew 0,
\* and drew 1 again at a later step
C17_Witness ==
    /\ discrete_steps
    /\ pc = "assembled"
    /\ \E i \in Batch :
          /\ StepsBeforeFirstZero(i) = 1
          /\ drawn[max_steps].new_presence[i] = D
          /\ max_steps > 2

Spec == Init /\ [][Next]_vars
====
